---- MODULE Spec2Model ----
(***************************************************************************)
(* Model of utils/logExtractor.py: read(dir, fname, opt, old, maxtime)     *)
(* opens the log file <fname>+<opt>.log of a directory, scans it line by   *)
(* line and derives a record from the retained lines.                      *)
(*                                                                         *)
(* Strings are sequences of one-character strings, so that the regular     *)
(* expression searches, the 's' removal, the whitespace split and the      *)
(* numeric conversions are computed as the code computes them.  Values of  *)
(* the record are tagged with their Python type: <<"int", n>>,             *)
(* <<"float", m>> (m in thousandths) and <<"str", chars>>.                 *)
(***************************************************************************)
EXTENDS Integers, Sequences, FiniteSets, TLC

VARIABLES
    dirFiles,   \* names of the files present in dir
    file,       \* lines of the file read names, in order (none if missing)
    fname,      \* argument fname
    opt,        \* argument opt
    old,        \* argument old
    maxtime,    \* argument maxtime
    pc,         \* position in read: open, scan, select, extract, status,
                \* cap, build, done (returned), raised (exception escaped)
    logfile,    \* the file object: "none" before open, "open" after (read
                \* has no close() and no with block: nothing closes it)
    i,          \* index of the next line the for loop reads
    sndlast, last, rstat, mstat,   \* locals of the scan
    parts, sndparts,               \* token lists
    dedup,      \* TRUE iff line 55 ran (parts = sndparts was assigned)
    isopt,      \* result of re.search(ropt, last) at line 60
    solution,   \* the list being built, and returned
    error       \* exception that escaped read: none, IndexError, ValueError

vars == <<dirFiles, file, fname, opt, old, maxtime, pc, logfile, i, sndlast,
          last, rstat, mstat, parts, sndparts, dedup, isopt, solution, error>>

-----------------------------------------------------------------------------
(* Bounds of the model *)

\* longest log file, in lines
MaxLines == 3

-----------------------------------------------------------------------------
(* Python values *)

PyInt(n) == <<"int", n>>
PyFloat(m) == <<"float", m>>
PyStr(s) == <<"str", s>>

\* numeric value, in thousandths, of an int or a float
Milli(x) == IF x[1] = "int" THEN 1000 * x[2] ELSE x[2]

\* Python == on two numbers (3 == 3.0)
NumEq(x, y) == Milli(x) = Milli(y)

-----------------------------------------------------------------------------
(* String operations *)

\* s[i:i+len(w)] == w, positions from 1
HasAt(s, w, k) ==
    /\ k >= 1
    /\ k + Len(w) - 1 <= Len(s)
    /\ \A j \in 1..Len(w) : s[k + j - 1] = w[j]

\* w occurs in s at a position >= k
FindFrom(s, w, k) == \E j \in k..Len(s) : HasAt(s, w, j)

\* str.replace(c, '')
Remove(s, c) == SelectSeq(s, LAMBDA x : x # c)

\* str.replace(a, b) for single characters
Replace(s, a, b) == [k \in 1..Len(s) |-> IF s[k] = a THEN b ELSE s[k]]

\* s[:-1]
DropLast(s) == IF Len(s) = 0 THEN s ELSE SubSeq(s, 1, Len(s) - 1)

IsSpace(c) == c \in {" ", "\n", "\t", "\r"}

\* str.split(): the maximal runs of non-whitespace characters
RECURSIVE SplitFrom(_, _, _, _)
SplitFrom(s, k, cur, acc) ==
    IF k > Len(s)
    THEN IF cur = <<>> THEN acc ELSE Append(acc, cur)
    ELSE IF IsSpace(s[k])
         THEN SplitFrom(s, k + 1, <<>>, IF cur = <<>> THEN acc ELSE Append(acc, cur))
         ELSE SplitFrom(s, k + 1, Append(cur, s[k]), acc)

Split(s) == SplitFrom(s, 1, <<>>, <<>>)

Digits == {"0", "1", "2", "3", "4", "5", "6", "7", "8", "9"}

DigitVal(c) ==
    CASE c = "0" -> 0 [] c = "1" -> 1 [] c = "2" -> 2 [] c = "3" -> 3
      [] c = "4" -> 4 [] c = "5" -> 5 [] c = "6" -> 6 [] c = "7" -> 7
      [] c = "8" -> 8 [] c = "9" -> 9

AllDigits(s) == \A k \in 1..Len(s) : s[k] \in Digits

\* value of a string of digits
RECURSIVE DigitsVal(_)
DigitsVal(s) ==
    IF s = <<>> THEN 0
    ELSE 10 * DigitsVal(DropLast(s)) + DigitVal(s[Len(s)])

\* int(s): an optional sign and at least one digit, else ValueError
ParseInt(s) ==
    LET neg == Len(s) > 0 /\ s[1] = "-"
        body == IF Len(s) > 0 /\ s[1] \in {"-", "+"} THEN Tail(s) ELSE s
    IN  IF Len(body) > 0 /\ AllDigits(body)
        THEN [ok |-> TRUE, v |-> IF neg THEN 0 - DigitsVal(body) ELSE DigitsVal(body)]
        ELSE [ok |-> FALSE, v |-> 0]

\* the fraction digits f as thousandths (digits past the third are cut)
FracMilli(f) ==
    LET d(k) == IF k <= Len(f) THEN DigitVal(f[k]) ELSE 0
    IN  100 * d(1) + 10 * d(2) + d(3)

\* float(s), in thousandths: an optional sign, digits with at most one
\* point and at least one digit; any other string is a ValueError
ParseFloat(s) ==
    LET neg == Len(s) > 0 /\ s[1] = "-"
        body == IF Len(s) > 0 /\ s[1] \in {"-", "+"} THEN Tail(s) ELSE s
        dots == {k \in 1..Len(body) : body[k] = "."}
        dot == IF dots = {} THEN Len(body) + 1 ELSE CHOOSE k \in dots : TRUE
        ip == SubSeq(body, 1, dot - 1)
        fp == SubSeq(body, dot + 1, Len(body))
        m == 1000 * DigitsVal(ip) + FracMilli(fp)
    IN  IF /\ Cardinality(dots) <= 1
           /\ AllDigits(ip) /\ AllDigits(fp)
           /\ Len(ip) + Len(fp) > 0
        THEN [ok |-> TRUE, v |-> IF neg THEN 0 - m ELSE m]
        ELSE [ok |-> FALSE, v |-> 0]

-----------------------------------------------------------------------------
(* Module constants of logExtractor.py *)

\* Solutions,
rsolWord ==
    <<"S","o","l","u","t","i","o","n","s",",">>
\* building
rmodWord ==
    <<"b","u","i","l","d","i","n","g">>
\* MINIMIZE
roptMin ==
    <<"M","I","N","I","M","I","Z","E">>
\* MAXIMIZE
roptMax ==
    <<"M","A","X","I","M","I","Z","E">>
\* =====
statusMark ==
    <<"=","=","=","=","=">>

\* re.search(rsol, line), rsol = '%.*Solutions,.*'
rsol(line) ==
    \E k \in 1..Len(line) : line[k] = "%" /\ FindFrom(line, rsolWord, k + 1)

\* re.search(rmod, line), rmod = '%.building.*'
rmod(line) ==
    \E k \in 1..Len(line) :
        /\ line[k] = "%"
        /\ k + 1 <= Len(line) /\ line[k + 1] # "\n"
        /\ HasAt(line, rmodWord, k + 2)

\* re.search(ropt, line), ropt = '%.*(MINIMIZE|MAXIMIZE).*'
ropt(line) ==
    \E k \in 1..Len(line) :
        /\ line[k] = "%"
        /\ FindFrom(line, roptMin, k + 1) \/ FindFrom(line, roptMax, k + 1)

\* re.search(status, line), status = '=====.*'
status(line) == FindFrom(line, statusMark, 1)

\* ==========\n
comp ==
    <<"=","=","=","=","=","=","=","=","=","=","\n">>
\* =====UNSATISFIABLE=====\n
unsa ==
    <<"=","=","=","=","=","U","N","S","A","T","I","S","F","I","A","B","L","E","=","=","=","=","=","\n">>
\* =====UNKNOWN=====\n
unkn ==
    <<"=","=","=","=","=","U","N","K","N","O","W","N","=","=","=","=","=","\n">>
\* =====UNBOUNDED=====\n
unbo ==
    <<"=","=","=","=","=","U","N","B","O","U","N","D","E","D","=","=","=","=","=","\n">>

maxobj == 999999999

-----------------------------------------------------------------------------
(* Inputs: the lines a log file is made of *)

\* % 1 Solutions, Res 0.5s, 12 Nodes\n
OldSat1 ==
    <<"%"," ","1"," ","S","o","l","u","t","i","o","n","s",","," ","R","e","s"," ","0",".","5","s",","," ","1","2"," ","N","o","d","e","s","\n">>
\* % 2 Solutions, Res 2.0s, 30 Nodes\n
OldSat2 ==
    <<"%"," ","2"," ","S","o","l","u","t","i","o","n","s",","," ","R","e","s"," ","2",".","0","s",","," ","3","0"," ","N","o","d","e","s","\n">>
\* % 1 Solutions, MINIMIZE c = 1,000, Res 12.5s, 340 Nodes\n
OldOpt1 ==
    <<"%"," ","1"," ","S","o","l","u","t","i","o","n","s",","," ","M","I","N","I","M","I","Z","E"," ","c"," ","="," ","1",",","0","0","0",","," ","R","e","s"," ","1","2",".","5","s",","," ","3","4","0"," ","N","o","d","e","s","\n">>
\* % - 1 Solutions, Res time 0.5s, 12 Nodes\n
NewSat1 ==
    <<"%"," ","-"," ","1"," ","S","o","l","u","t","i","o","n","s",","," ","R","e","s"," ","t","i","m","e"," ","0",".","5","s",","," ","1","2"," ","N","o","d","e","s","\n">>
\* % - 2 Solutions, Res time 3.21s, 12 Nodes\n
NewSat2 ==
    <<"%"," ","-"," ","2"," ","S","o","l","u","t","i","o","n","s",","," ","R","e","s"," ","t","i","m","e"," ","3",".","2","1","s",","," ","1","2"," ","N","o","d","e","s","\n">>
\* % - 1 Solutions, MAXIMIZE c = 7, Res time 12.5s, 5 Nodes\n
NewOpt1 ==
    <<"%"," ","-"," ","1"," ","S","o","l","u","t","i","o","n","s",","," ","M","A","X","I","M","I","Z","E"," ","c"," ","="," ","7",","," ","R","e","s"," ","t","i","m","e"," ","1","2",".","5","s",","," ","5"," ","N","o","d","e","s","\n">>
\* x =====\n
StrayMark ==
    <<"x"," ","=","=","=","=","=","\n">>
\* ==========
CompNoEol ==
    <<"=","=","=","=","=","=","=","=","=","=">>
\* % building a b c d e f 0.2s,\n
Build1 ==
    <<"%"," ","b","u","i","l","d","i","n","g"," ","a"," ","b"," ","c"," ","d"," ","e"," ","f"," ","0",".","2","s",",","\n">>
\* % building a b c d e f 0.4s,\n
Build2 ==
    <<"%"," ","b","u","i","l","d","i","n","g"," ","a"," ","b"," ","c"," ","d"," ","e"," ","f"," ","0",".","4","s",",","\n">>
\* ----------\n
Dashes ==
    <<"-","-","-","-","-","-","-","-","-","-","\n">>

Lines ==
    {OldSat1, OldSat2, OldOpt1, NewSat1, NewSat2, NewOpt1,
     comp, unbo, StrayMark, CompNoEol, Build1, Build2, Dashes}

\* a file of at most MaxLines lines; only its last line can lack the newline
Files ==
    {f \in UNION {[1..n -> Lines] : n \in 0..MaxLines} :
        \A k \in 1..(Len(f) - 1) : f[k][Len(f[k])] = "\n"}

FNames == {<<"a">>}
Opts == {<<"x">>, <<"y">>}
MaxTimes == {PyInt(2), PyInt(10)}

\* '.log'
LogExt ==
    <<".","l","o","g">>

\* os.path.join(dir, fname + '+' + opt + '.log'), relative to dir
LogPath(f, o) == f \o <<"+">> \o o \o LogExt

\* the log file of the model's directory, when it has one
TheLog == LogPath(<<"a">>, <<"x">>)

-----------------------------------------------------------------------------
(* String literals of read *)

UNK == <<"U","N","K">>
SAT == <<"S","A","T">>
MIN == <<"M","I","N">>
MAX == <<"M","A","X">>
unknown == <<"u","n","k","n","o","w","n">>
proof == <<"p","r","o","o","f">>
unbounded == <<"u","n","b","o","u","n","d","e","d">>
blank == <<" "," ">>

-----------------------------------------------------------------------------
(* The steps of read *)

\* p[k] of Python, k from 0
Tok(p, k) == p[k + 1]

Raise(e) == [err |-> e, val |-> <<>>]
Ok(v) == [err |-> "none", val |-> v]

\* MissingFileRecord with the build time of the default branch (0, line 108)
MissingFileRecord_ZeroBuild(o, m) ==
    <<PyInt(0), m, PyInt(maxobj), PyStr(UNK), PyInt(0), PyStr(unknown), PyStr(o), PyInt(0)>>

\* line 34: the list returned when the file is not found
MissingFileRecord(o, m) ==
    <<PyInt(0), m, PyInt(maxobj), PyStr(UNK), PyInt(0), PyStr(unknown), PyStr(o), m>>

\* line 103: the list assigned when the last solution line has no token
NoSolutionRecord(o, m) ==
    <<PyInt(0), m, PyInt(maxobj), PyStr(UNK), PyInt(0), PyStr(unknown), PyStr(o), m>>

\* ShiftWindow with the two assignments in the other order
ShiftWindow_Swapped(snd, lst, line) == <<line, line>>

\* lines 41-42: sndlast = last; last = line
ShiftWindow(snd, lst, line) == <<lst, line>>

\* line 54: len(sndparts) > 0 and parts[1] == sndparts[1]
DedupTest(p, sp) ==
    IF Len(sp) = 0 THEN Ok(FALSE)
    ELSE IF Len(p) <= 1 \/ Len(sp) <= 1 THEN Raise("IndexError")
    ELSE Ok(Tok(p, 1) = Tok(sp, 1))

\* lines 56-59: position of the first field
SolIdx(o) == IF o THEN 1 ELSE 2

\* TimeIdx with the old positions whatever the schema
TimeIdx_OldOnly(o, optm) == IF optm THEN 8 ELSE 4

\* lines 63, 71, 81, 84: position of the time
TimeIdx(o, optm) == IF optm THEN (IF o THEN 8 ELSE 10) ELSE (IF o THEN 4 ELSE 6)

\* lines 64, 72, 82, 85: position of the nodes
NodesIdx(o, optm) == IF optm THEN (IF o THEN 9 ELSE 11) ELSE (IF o THEN 5 ELSE 7)

\* lines 65, 73: position of the policy
PolicyIdx(o) == IF o THEN 3 ELSE 4

\* lines 69, 77: position of the objective
ObjIdx(o) == IF o THEN 6 ELSE 7

\* float(tok[:-1].replace(',', '.'))
ToSeconds(tok) == ParseFloat(Replace(DropLast(tok), ",", "."))

\* int(tok.replace(',', ''))
ToObj(tok) == ParseInt(Remove(tok, ","))

\* lines 60-87: time, nodes, policy and objective read from the tokens p
Fields(p, o, optm) ==
    LET t == TimeIdx(o, optm)
        n == NodesIdx(o, optm)
    IN  IF Len(p) <= t THEN Raise("IndexError")
        ELSE IF ~ToSeconds(Tok(p, t)).ok THEN Raise("ValueError")
        ELSE IF Len(p) <= n THEN Raise("IndexError")
        ELSE IF ~optm
             THEN Ok(<<PyFloat(ToSeconds(Tok(p, t)).v), PyStr(Tok(p, n)), PyStr(SAT), PyInt(0)>>)
        ELSE IF Len(p) <= PolicyIdx(o) \/ Len(p) <= ObjIdx(o) THEN Raise("IndexError")
        ELSE IF ~ToObj(Tok(p, ObjIdx(o))).ok THEN Raise("ValueError")
        ELSE Ok(<<PyFloat(ToSeconds(Tok(p, t)).v), PyStr(Tok(p, n)),
                  PyStr(IF Tok(p, PolicyIdx(o)) = roptMin THEN MIN ELSE MAX),
                  PyInt(ToObj(Tok(p, ObjIdx(o))).v)>>)

\* lines 88-96: the status appended for the retained status line
StatusOf(rs) ==
    IF rs = <<>> THEN blank
    ELSE IF rs = comp THEN proof
    ELSE IF rs = unsa THEN proof
    ELSE IF rs = unbo THEN unbounded
    ELSE unknown

\* CapTime with the comparison turned round
CapTime_Reversed(sol, m) ==
    IF Milli(sol[2]) <= Milli(m) THEN [sol EXCEPT ![2] = PyFloat(Milli(m))] ELSE sol

\* lines 100-101: solution[1] = float(maxtime) when solution[1] >= maxtime
CapTime(sol, m) ==
    IF Milli(sol[2]) >= Milli(m) THEN [sol EXCEPT ![2] = PyFloat(Milli(m))] ELSE sol

\* lines 104-108: the build time appended for the retained build line
BuildField(ms) ==
    LET btime == Split(Remove(ms, "s"))
    IN  IF Len(btime) = 0 THEN Ok(PyInt(0))
        ELSE IF Len(btime) <= 8 THEN Raise("IndexError")
        ELSE IF ~ToSeconds(Tok(btime, 8)).ok THEN Raise("ValueError")
        ELSE Ok(PyFloat(ToSeconds(Tok(btime, 8)).v))

Init ==
    /\ dirFiles \in {{}, {TheLog}}
    /\ fname \in FNames
    /\ opt \in Opts
    /\ file \in (IF LogPath(fname, opt) \in dirFiles THEN Files ELSE {<<>>})
    /\ old \in BOOLEAN
    /\ maxtime \in MaxTimes
    /\ pc = "open"
    /\ logfile = "none"
    /\ i = 1
    /\ sndlast = <<>> /\ last = <<>> /\ rstat = <<>> /\ mstat = <<>>
    /\ parts = <<>> /\ sndparts = <<>>
    /\ dedup = FALSE /\ isopt = FALSE
    /\ solution = <<>>
    /\ error = "none"

\* lines 31-38: open the file, or return the record of a missing file
Open ==
    /\ pc = "open"
    /\ IF LogPath(fname, opt) \in dirFiles
       THEN /\ logfile' = "open"
            /\ pc' = "scan"
            /\ UNCHANGED solution
       ELSE /\ solution' = MissingFileRecord(opt, maxtime)
            /\ pc' = "done"
            /\ UNCHANGED logfile
    /\ UNCHANGED <<dirFiles, file, fname, opt, old, maxtime, i, sndlast, last,
                   rstat, mstat, parts, sndparts, dedup, isopt, error>>

\* lines 39-46: one iteration of the for loop
ScanLine ==
    /\ pc = "scan"
    /\ i <= Len(file)
    /\ LET line == file[i]
           w == IF rsol(line) THEN ShiftWindow(sndlast, last, line)
                ELSE <<sndlast, last>>
       IN  /\ sndlast' = w[1]
           /\ last' = w[2]
           /\ rstat' = IF status(line) THEN line ELSE rstat
           /\ mstat' = IF mstat = <<>> /\ rmod(line) THEN line ELSE mstat
    /\ i' = i + 1
    /\ UNCHANGED <<dirFiles, file, fname, opt, old, maxtime, pc, logfile,
                   parts, sndparts, dedup, isopt, solution, error>>

\* lines 49-52: after the loop, strip the 's' characters and split
Tokenize ==
    /\ pc = "scan"
    /\ i > Len(file)
    /\ last' = Remove(last, "s")
    /\ parts' = Split(last')
    /\ sndlast' = Remove(sndlast, "s")
    /\ sndparts' = Split(sndlast')
    /\ pc' = "select"
    /\ UNCHANGED <<dirFiles, file, fname, opt, old, maxtime, logfile, i, rstat,
                   mstat, dedup, isopt, solution, error>>

\* lines 53-59: choose the tokens and start the list with the first field
Select ==
    /\ pc = "select"
    /\ Len(parts) > 0
    /\ LET d == DedupTest(parts, sndparts)
           p == IF d.err = "none" /\ d.val THEN sndparts ELSE parts
       IN  IF d.err # "none"
           THEN /\ error' = d.err
                /\ pc' = "raised"
                /\ UNCHANGED <<parts, dedup, solution>>
           ELSE IF Len(p) <= SolIdx(old)
           THEN /\ error' = "IndexError"
                /\ pc' = "raised"
                /\ parts' = p
                /\ dedup' = d.val
                /\ UNCHANGED solution
           ELSE /\ parts' = p
                /\ dedup' = d.val
                /\ solution' = <<PyStr(Tok(p, SolIdx(old)))>>
                /\ pc' = "extract"
                /\ UNCHANGED error
    /\ UNCHANGED <<dirFiles, file, fname, opt, old, maxtime, logfile, i, sndlast,
                   last, rstat, mstat, sndparts, isopt>>

\* lines 102-103: no token in the last solution line
NoSolution ==
    /\ pc = "select"
    /\ Len(parts) = 0
    /\ solution' = NoSolutionRecord(opt, maxtime)
    /\ pc' = "build"
    /\ UNCHANGED <<dirFiles, file, fname, opt, old, maxtime, logfile, i, sndlast,
                   last, rstat, mstat, parts, sndparts, dedup, isopt, error>>

\* lines 60-87: test last for the optimization pattern and read the fields
Extract ==
    /\ pc = "extract"
    /\ isopt' = ropt(last)
    /\ LET f == Fields(parts, old, isopt')
       IN  IF f.err # "none"
           THEN /\ error' = f.err
                /\ pc' = "raised"
                /\ UNCHANGED solution
           ELSE /\ solution' = solution \o f.val
                /\ pc' = "status"
                /\ UNCHANGED error
    /\ UNCHANGED <<dirFiles, file, fname, opt, old, maxtime, logfile, i, sndlast,
                   last, rstat, mstat, parts, sndparts, dedup>>

\* lines 88-96: append the status
Status ==
    /\ pc = "status"
    /\ solution' = Append(solution, PyStr(StatusOf(rstat)))
    /\ pc' = "cap"
    /\ UNCHANGED <<dirFiles, file, fname, opt, old, maxtime, logfile, i, sndlast,
                   last, rstat, mstat, parts, sndparts, dedup, isopt, error>>

\* lines 98-101: append opt and cap the time
Cap ==
    /\ pc = "cap"
    /\ solution' = CapTime(Append(solution, PyStr(opt)), maxtime)
    /\ pc' = "build"
    /\ UNCHANGED <<dirFiles, file, fname, opt, old, maxtime, logfile, i, sndlast,
                   last, rstat, mstat, parts, sndparts, dedup, isopt, error>>

\* lines 104-110: append the build time and return
Build ==
    /\ pc = "build"
    /\ LET b == BuildField(mstat)
       IN  IF b.err # "none"
           THEN /\ error' = b.err
                /\ pc' = "raised"
                /\ UNCHANGED solution
           ELSE /\ solution' = Append(solution, b.val)
                /\ pc' = "done"
                /\ UNCHANGED error
    /\ UNCHANGED <<dirFiles, file, fname, opt, old, maxtime, logfile, i, sndlast,
                   last, rstat, mstat, parts, sndparts, dedup, isopt>>

Next ==
    \/ Open
    \/ ScanLine
    \/ Tokenize
    \/ Select
    \/ NoSolution
    \/ Extract
    \/ Status
    \/ Cap
    \/ Build

Spec == Init /\ [][Next]_vars

-----------------------------------------------------------------------------
(* Properties *)

SetMax(S) == CHOOSE x \in S : \A y \in S : y <= x
SetMin(S) == CHOOSE x \in S : \A y \in S : x <= y

\* '<fname>+<opt>.log'
TargetName == fname \o <<"+">> \o opt \o <<".", "l", "o", "g">>

\* the tokens of a line: 's' characters removed, split on whitespace
TokensOf(line) == Split(Remove(line, "s"))

\* indices of the lines of the file matching the solution-report pattern
SolutionLines == {k \in 1..Len(file) : rsol(file[k])}

\* indices of the lines of the file matching the build-marker pattern
BuildLines == {k \in 1..Len(file) : rmod(file[k])}

\* indices of the lines of the file that begin with the '=====' marker
BannerLines == {k \in 1..Len(file) : HasAt(file[k], statusMark, 1)}

\* a line without its line terminator
Chomp(line) ==
    IF Len(line) > 0 /\ line[Len(line)] = "\n" THEN DropLast(line) ELSE line

\* C1: when '<fname>+<opt>.log' is not in the directory, read returns
\* exactly [0, maxtime, 999999999, 'UNK', 0, 'unknown', opt, maxtime], for
\* every opt, old and maxtime, without opening or scanning anything and
\* without extracting a build time.
C1_MissingFileRecord ==
    (pc # "open" /\ TargetName \notin dirFiles) =>
        /\ pc = "done"
        /\ solution = <<PyInt(0), maxtime, PyInt(999999999), PyStr(UNK), PyInt(0),
                        PyStr(unknown), PyStr(opt), maxtime>>
        /\ logfile = "none"
        /\ i = 1
        /\ last = <<>> /\ sndlast = <<>> /\ rstat = <<>> /\ mstat = <<>>
        /\ parts = <<>> /\ sndparts = <<>>

\* C1 witness: read returned for a missing file while the directory holds
\* the log of another variant.
C1_Witness ==
    /\ pc = "done"
    /\ TargetName \notin dirFiles
    /\ dirFiles # {}
    /\ maxtime = PyInt(10)

\* C2: every record read returns has exactly 8 fields.
C2_EightFields == pc = "done" => Len(solution) = 8

\* the time the extraction read from the chosen tokens
LoggedTime == ToSeconds(Tok(parts, TimeIdx(old, isopt))).v

ExpectedBuildTime ==
    IF BuildLines = {} THEN 0
    ELSE ToSeconds(Tok(TokensOf(file[SetMin(BuildLines)]), 8)).v

\* C4: the build-time field (the 8th) of the returned record is 0 when no
\* line matches the build-marker pattern and else the value of token 8 of
\* the first build-marker line, whether or not a solution line was found.
C4_BuildTimeField ==
    (pc = "done" /\ logfile = "open") =>
        /\ Len(solution) >= 8
        /\ Milli(solution[8]) = ExpectedBuildTime

\* a new-schema satisfaction solution line with the tokens where read
\* looks for them
WellFormedNewSat(line) ==
    /\ ~FindFrom(line, roptMin, 1)
    /\ ~FindFrom(line, roptMax, 1)
    /\ Len(TokensOf(line)) > 7
    /\ ToSeconds(Tok(TokensOf(line), 6)).ok

\* a well-formed new-schema satisfaction log that ends complete: it has a
\* solution line, every solution line is a satisfaction line, the '====='
\* marker only begins lines, the last such line is the complete banner,
\* and every build-marker line carries a time at token 8
C5_Pre ==
    /\ ~old
    /\ logfile = "open"
    /\ SolutionLines # {}
    /\ \A k \in SolutionLines : WellFormedNewSat(file[k])
    /\ \A k \in 1..Len(file) : status(file[k]) => k \in BannerLines
    /\ BannerLines # {}
    /\ file[SetMax(BannerLines)] = comp
    /\ \A k \in BuildLines :
           /\ Len(TokensOf(file[k])) > 8
           /\ ToSeconds(Tok(TokensOf(file[k]), 8)).ok

\* the tokens of the last and of the second-to-last solution line
LastTwoSolutionTokens ==
    LET m == SetMax(SolutionLines)
        rest == SolutionLines \ {m}
    IN  {TokensOf(file[m])} \cup
        (IF rest = {} THEN {} ELSE {TokensOf(file[SetMax(rest)])})

\* C5: for a well-formed new-schema satisfaction log ending with the
\* complete banner, read raises nothing and returns status 'proof', policy
\* 'SAT' and objective 0, the time (capped) from token 6 and the nodes from
\* token 7 of the solution line it chose.
C5_NewSatComplete ==
    (pc \in {"done", "raised"} /\ C5_Pre) =>
        /\ pc = "done"
        /\ parts \in LastTwoSolutionTokens
        /\ solution[6] = PyStr(proof)
        /\ solution[4] = PyStr(SAT)
        /\ solution[5] = PyInt(0)
        /\ solution[3] = PyStr(Tok(parts, 7))
        /\ LET t == ToSeconds(Tok(parts, 6)).v
           IN  Milli(solution[2]) =
                   IF t >= Milli(maxtime) THEN Milli(maxtime) ELSE t

\* C5 witness: such a log with two solution lines was read to the end.
C5_Witness ==
    /\ pc = "done"
    /\ C5_Pre
    /\ Cardinality(SolutionLines) >= 2
    /\ Len(solution) = 8

\* the status the claim gives for the last line beginning with '====='
ExpectedStatus ==
    IF BannerLines = {} THEN blank
    ELSE LET b == Chomp(file[SetMax(BannerLines)])
         IN  IF b = Chomp(comp) THEN proof
             ELSE IF b = Chomp(unsa) THEN proof
             ELSE IF b = Chomp(unbo) THEN unbounded
             ELSE unknown

\* C6: when a solution line was found, the status of the returned record
\* depends only on the last line of the file that begins with '=====':
\* none gives two spaces, '==========' and '=====UNSATISFIABLE=====' give
\* 'proof', '=====UNBOUNDED=====' gives 'unbounded', any other 'unknown'.
C6_StatusFromLastBanner ==
    (pc = "done" /\ logfile = "open" /\ Len(parts) > 0) =>
        solution[6] = PyStr(ExpectedStatus)

\* both token lists have a token k, and it is the same
SameTok(p, q, k) == Len(p) > k /\ Len(q) > k /\ Tok(p, k) = Tok(q, k)

\* read went past the choice of the tokens (lines 53-59)
Selected == Len(parts) > 0 /\ Len(solution) >= 1

\* C7: the tokens of the second-to-last solution line replace those of the
\* last one iff both lists are non-empty and their tokens at the
\* solution-count position (1 if old, else 2) are the same.
C7_DedupRule ==
    Selected =>
        /\ dedup = (Len(sndparts) > 0 /\ SameTok(Split(last), sndparts, SolIdx(old)))
        /\ parts = IF dedup THEN sndparts ELSE Split(last)

\* C8: the MINIMIZE/MAXIMIZE test that chooses the field layout is applied
\* to the solution line whose tokens are used: the second-to-last one when
\* the deduplication rule selected it.
C8_LayoutOfChosenLine ==
    (Selected /\ pc # "extract") =>
        isopt = ropt(IF dedup THEN sndlast ELSE last)

\* C9: read leaves no file open when it ends, by return or by exception.
C9_HandleReleased == pc \in {"done", "raised"} => logfile # "open"

\* C10: during and after the scan, last is the last line read so far that
\* matches the solution-report pattern and sndlast the matching line
\* before it (empty when there is none); other lines leave both alone.
C10_SolutionWindow ==
    pc = "scan" =>
        LET S == {k \in 1..(i - 1) : rsol(file[k])}
            m == SetMax(S)
        IN  /\ last = IF S = {} THEN <<>> ELSE file[m]
            /\ sndlast = IF Cardinality(S) < 2 THEN <<>> ELSE file[SetMax(S \ {m})]

\* C10 witness: the scan ended on a file with two different solution lines
\* around a line that is none.
C10_Witness ==
    /\ pc = "scan"
    /\ i > Len(file)
    /\ Len(file) >= 3
    /\ rsol(file[1]) /\ ~rsol(file[2]) /\ rsol(file[3])
    /\ file[1] # file[3]
    /\ last = file[3] /\ sndlast = file[1]

====
